---- MODULE Spec2Model ----
(***************************************************************************)
(* A model of the symbolism library (src/src/symbolism/symbolism.py): the  *)
(* class symbol, its construction by application, its traversal methods    *)
(* and its recursive evaluation, over a heap of symbol objects.            *)
(***************************************************************************)
EXTENDS Integers, Sequences, FiniteSets, TLC

VARIABLES
    heap,     \* the symbol objects created so far; an object's identity is its index
    declared, \* for each object, the call that created it: the payload and the
              \* arguments as the caller wrote them
    last,     \* the most recent method call: its name, receiver and arguments
    result,   \* what that call returned or raised
    trace,    \* the evaluate() entries and payload invocations of that call, in order
    threads   \* the evaluations that run step by step, each with its own call stack

vars == <<heap, declared, last, result, trace, threads>>

----------------------------------------------------------------------------
(* Bounds of the model. *)

MaxNodes == 3   \* symbol objects created after the module has been imported
MaxArgs == 2    \* arguments of one application call

----------------------------------------------------------------------------
(* Python values.  Every value is a record of the same shape, so that any  *)
(* two values can be compared.                                             *)

(* n is the number an int or a bool holds, or the numerator of a float     *)
(* whose denominator is d (a float is kept as a reduced fraction).         *)
PyInt(i) == [kind |-> "int", n |-> i, d |-> 1, name |-> ""]
PyBool(b) == [kind |-> "bool", n |-> IF b THEN 1 ELSE 0, d |-> 1, name |-> ""]
PyFn(f) == [kind |-> "function", n |-> 0, d |-> 1, name |-> f]
PyRef(id) == [kind |-> "symbol", n |-> id, d |-> 1, name |-> ""]
PyNone == [kind |-> "NoneType", n |-> 0, d |-> 1, name |-> ""]
PyTuple == [kind |-> "tuple", n |-> 0, d |-> 1, name |-> ""]
PyList == [kind |-> "list", n |-> 0, d |-> 1, name |-> ""]
PyExc(e) == [kind |-> "exception", n |-> 0, d |-> 1, name |-> e]
PyStr(t) == [kind |-> "str", n |-> 0, d |-> 1, name |-> t]

Abs(i) == IF i < 0 THEN 0 - i ELSE i
RECURSIVE Gcd(_, _)
Gcd(a, b) == IF b = 0 THEN a ELSE Gcd(b, a % b)

(* The float num/den (den # 0), reduced, its denominator positive. *)
PyFloat(num, den) ==
    LET g == Gcd(Abs(num), Abs(den))
        sign == IF den < 0 THEN 0 - 1 ELSE 1
    IN  [kind |-> "float", n |-> sign * (num \div g), d |-> Abs(den) \div g, name |-> ""]

(* The outcome of a call: a returned value (with its items when the value  *)
(* is a list or a tuple) or a raised exception.                            *)
Return(v) == [raised |-> FALSE, val |-> v, items |-> <<>>]
ReturnTuple(s) == [raised |-> FALSE, val |-> PyTuple, items |-> s]
ReturnList(s) == [raised |-> FALSE, val |-> PyList, items |-> s]
Raise(e) == [raised |-> TRUE, val |-> PyExc(e), items |-> <<>>]

----------------------------------------------------------------------------
(* The attribute `parameters` of a symbol: None, the tuple of positional   *)
(* arguments, or the dict of keyword arguments in insertion order.         *)

ParamsNone == [kind |-> "None", keys |-> <<>>, vals |-> <<>>]
ParamsTuple(args) == [kind |-> "tuple", keys |-> <<>>, vals |-> args]
ParamsDict(keys, vals) == [kind |-> "dict", keys |-> keys, vals |-> vals]

----------------------------------------------------------------------------
(* Callables.  The catalog functions are the module's own (_add_, _sub_,   *)
(* _neg_); `seven` and `boom` are callables a client hands to symbol():    *)
(*     seven = lambda: 7                                                   *)
(*     def boom(x): raise RuntimeError                                     *)

CatalogFunctions == <<"_add_", "_sub_", "_neg_">>
ClientFunctions == {"seven", "boom"}

(* All the functions of the catalog: the three above, then the others in   *)
(* the order the module defines them.                                      *)
FullCatalogFunctions ==
    CatalogFunctions \o
    <<"_and_", "_or_", "_not_", "_in_", "_is_", "_mul_", "_matmul_", "_div_",
      "_floordiv_", "_mod_", "_pow_", "_lshift_", "_rshift_", "_bitand_",
      "_bitxor_", "_bitor_", "_invert_", "_pos_", "_eq_", "_ne_", "_lt_",
      "_le_", "_gt_", "_ge_">>
UnaryFunctions == {"_neg_", "_not_", "_invert_", "_pos_"}

(* The names of a function's parameters, in the order of its signature. *)
ParamNames(f) ==
    CASE f = "seven" -> <<>>
      [] f = "boom" -> <<"x">>
      [] f \in UnaryFunctions -> <<"x">>
      [] OTHER -> <<"x", "y">>

IsInt(v) == v.kind = "int"

(* return x + y *)
add_body(x, y) ==
    IF IsInt(x) /\ IsInt(y) THEN Return(PyInt(x.n + y.n)) ELSE Raise("TypeError")

(* return x - y *)
sub_body(x, y) ==
    IF IsInt(x) /\ IsInt(y) THEN Return(PyInt(x.n - y.n)) ELSE Raise("TypeError")

(* return -x *)
neg_body(x) ==
    IF IsInt(x) THEN Return(PyInt(0 - x.n)) ELSE Raise("TypeError")

(* The other functions of the catalog.  Their operands are ints (or, the   *)
(* operand being a function, of no type the operator takes); bools reach   *)
(* the boolean functions only.                                             *)

RECURSIVE Power(_, _)
Power(x, k) == IF k = 0 THEN 1 ELSE x * Power(x, k - 1)

(* The floor of x / y, y # 0. *)
FloorDiv(x, y) == IF y > 0 THEN x \div y ELSE (0 - x) \div (0 - y)

(* The division that rounds towards zero. *)
TruncDiv(x, y) ==
    IF (x < 0) = (y < 0) THEN Abs(x) \div Abs(y) ELSE 0 - (Abs(x) \div Abs(y))

(* x & y, x | y and x ^ y of ints of any sign (two's complement without    *)
(* end).                                                                   *)
RECURSIVE BitAnd(_, _)
BitAnd(x, y) ==
    IF x = 0 \/ y = 0 THEN 0
    ELSE IF x = 0 - 1 THEN y
    ELSE IF y = 0 - 1 THEN x
    ELSE 2 * BitAnd(x \div 2, y \div 2) + (x % 2) * (y % 2)
BitNot(x) == 0 - x - 1
BitOr(x, y) == BitNot(BitAnd(BitNot(x), BitNot(y)))
BitXor(x, y) == BitOr(x, y) - BitAnd(x, y)

(* bool(v) *)
Truthy(v) ==
    CASE v.kind \in {"int", "bool", "float"} -> v.n # 0
      [] v.kind = "NoneType" -> FALSE
      [] OTHER -> TRUE

(* return x and y *)
and_body(x, y) == IF Truthy(x) THEN Return(y) ELSE Return(x)

(* return x or y *)
or_body(x, y) == IF Truthy(x) THEN Return(x) ELSE Return(y)

(* return not x *)
not_body(x) == Return(PyBool(~Truthy(x)))

(* return x in y: no value here is a container *)
in_body(x, y) == Raise("TypeError")

(* return x is y *)
is_body(x, y) == Return(PyBool(x = y))

(* return x * y *)
mul_body(x, y) ==
    IF IsInt(x) /\ IsInt(y) THEN Return(PyInt(x.n * y.n)) ELSE Raise("TypeError")

(* return x @ y: no value here has __matmul__ *)
matmul_body(x, y) == Raise("TypeError")

(* return x / y *)
div_body(x, y) ==
    IF ~(IsInt(x) /\ IsInt(y)) THEN Raise("TypeError")
    ELSE IF y.n = 0 THEN Raise("ZeroDivisionError")
    ELSE Return(PyFloat(x.n, y.n))

(* A floor division that rounds towards zero. *)
floordiv_body_truncating(x, y) ==
    IF ~(IsInt(x) /\ IsInt(y)) THEN Raise("TypeError")
    ELSE IF y.n = 0 THEN Raise("ZeroDivisionError")
    ELSE Return(PyInt(TruncDiv(x.n, y.n)))

(* return x // y *)
floordiv_body(x, y) ==
    IF ~(IsInt(x) /\ IsInt(y)) THEN Raise("TypeError")
    ELSE IF y.n = 0 THEN Raise("ZeroDivisionError")
    ELSE Return(PyInt(FloorDiv(x.n, y.n)))

(* return x % y *)
mod_body(x, y) ==
    IF ~(IsInt(x) /\ IsInt(y)) THEN Raise("TypeError")
    ELSE IF y.n = 0 THEN Raise("ZeroDivisionError")
    ELSE Return(PyInt(x.n - y.n * FloorDiv(x.n, y.n)))

(* return x ** y: a negative power of an int is a float *)
pow_body(x, y) ==
    IF ~(IsInt(x) /\ IsInt(y)) THEN Raise("TypeError")
    ELSE IF y.n >= 0 THEN Return(PyInt(Power(x.n, y.n)))
    ELSE IF x.n = 0 THEN Raise("ZeroDivisionError")
    ELSE Return(PyFloat(1, Power(x.n, 0 - y.n)))

(* return x << y *)
lshift_body(x, y) ==
    IF ~(IsInt(x) /\ IsInt(y)) THEN Raise("TypeError")
    ELSE IF y.n < 0 THEN Raise("ValueError")
    ELSE Return(PyInt(x.n * Power(2, y.n)))

(* return x >> y *)
rshift_body(x, y) ==
    IF ~(IsInt(x) /\ IsInt(y)) THEN Raise("TypeError")
    ELSE IF y.n < 0 THEN Raise("ValueError")
    ELSE Return(PyInt(x.n \div Power(2, y.n)))

(* return x & y *)
bitand_body(x, y) ==
    IF IsInt(x) /\ IsInt(y) THEN Return(PyInt(BitAnd(x.n, y.n))) ELSE Raise("TypeError")

(* return x ^ y *)
bitxor_body(x, y) ==
    IF IsInt(x) /\ IsInt(y) THEN Return(PyInt(BitXor(x.n, y.n))) ELSE Raise("TypeError")

(* return x | y *)
bitor_body(x, y) ==
    IF IsInt(x) /\ IsInt(y) THEN Return(PyInt(BitOr(x.n, y.n))) ELSE Raise("TypeError")

(* return ~x *)
invert_body(x) ==
    IF IsInt(x) THEN Return(PyInt(BitNot(x.n))) ELSE Raise("TypeError")

(* return +x *)
pos_body(x) ==
    IF IsInt(x) THEN Return(x) ELSE Raise("TypeError")

(* return x == y, return x != y: defined for all values *)
eq_body(x, y) == Return(PyBool(x.kind = y.kind /\ x = y))
ne_body(x, y) == Return(PyBool(~(x.kind = y.kind /\ x = y)))

(* return x < y, x <= y, x > y, x >= y *)
lt_body(x, y) ==
    IF IsInt(x) /\ IsInt(y) THEN Return(PyBool(x.n < y.n)) ELSE Raise("TypeError")
le_body(x, y) ==
    IF IsInt(x) /\ IsInt(y) THEN Return(PyBool(x.n <= y.n)) ELSE Raise("TypeError")
gt_body(x, y) ==
    IF IsInt(x) /\ IsInt(y) THEN Return(PyBool(x.n > y.n)) ELSE Raise("TypeError")
ge_body(x, y) ==
    IF IsInt(x) /\ IsInt(y) THEN Return(PyBool(x.n >= y.n)) ELSE Raise("TypeError")

(* The body of function f run on its parameters a, bound in signature order. *)
Body(f, a) ==
    CASE f = "_add_" -> add_body(a[1], a[2])
      [] f = "_sub_" -> sub_body(a[1], a[2])
      [] f = "_neg_" -> neg_body(a[1])
      [] f = "seven" -> Return(PyInt(7))
      [] f = "boom" -> Raise("RuntimeError")
      [] f = "_and_" -> and_body(a[1], a[2])
      [] f = "_or_" -> or_body(a[1], a[2])
      [] f = "_not_" -> not_body(a[1])
      [] f = "_in_" -> in_body(a[1], a[2])
      [] f = "_is_" -> is_body(a[1], a[2])
      [] f = "_mul_" -> mul_body(a[1], a[2])
      [] f = "_matmul_" -> matmul_body(a[1], a[2])
      [] f = "_div_" -> div_body(a[1], a[2])
      [] f = "_floordiv_" -> floordiv_body(a[1], a[2])
      [] f = "_mod_" -> mod_body(a[1], a[2])
      [] f = "_pow_" -> pow_body(a[1], a[2])
      [] f = "_lshift_" -> lshift_body(a[1], a[2])
      [] f = "_rshift_" -> rshift_body(a[1], a[2])
      [] f = "_bitand_" -> bitand_body(a[1], a[2])
      [] f = "_bitxor_" -> bitxor_body(a[1], a[2])
      [] f = "_bitor_" -> bitor_body(a[1], a[2])
      [] f = "_invert_" -> invert_body(a[1])
      [] f = "_pos_" -> pos_body(a[1])
      [] f = "_eq_" -> eq_body(a[1], a[2])
      [] f = "_ne_" -> ne_body(a[1], a[2])
      [] f = "_lt_" -> lt_body(a[1], a[2])
      [] f = "_le_" -> le_body(a[1], a[2])
      [] f = "_gt_" -> gt_body(a[1], a[2])
      [] f = "_ge_" -> ge_body(a[1], a[2])

(* callee( *args ): the positional calling convention.  Calling a value that *)
(* is no callable, or with the wrong number of arguments, is a TypeError.  *)
PyCall(callee, args) ==
    IF callee.kind # "function" THEN Raise("TypeError")
    ELSE IF Len(args) # Len(ParamNames(callee.name)) THEN Raise("TypeError")
    ELSE Body(callee.name, args)

----------------------------------------------------------------------------
(* The methods of class symbol, as functions of the heap h.                *)

(* Iterating the dict itself: its keys. *)
parameter_values_keys(p) ==
    IF p.kind = "dict" THEN [i \in DOMAIN p.keys |-> PyStr(p.keys[i])] ELSE p.vals

(* self.parameters.values() if isinstance(self.parameters, dict) else      *)
(* self.parameters                                                         *)
parameter_values(p) == p.vals

(* An entry of the trace. *)
Entered(id) == [ev |-> "evaluate", node |-> id]
Invoked(id) == [ev |-> "invoke", node |-> id]

RECURSIVE evaluate(_, _)
RECURSIVE evaluate_parameters(_, _)

(* The evaluation of one parameter. *)
evaluate_parameter(h, v) ==
    IF v.kind = "symbol" THEN evaluate(h, v.n)
    ELSE [out |-> Raise("AttributeError"), trace |-> <<>>]

(* A loop that evaluates a parameter it will meet again only the last      *)
(* time, and takes that value for the earlier ones.                        *)
evaluate_parameters_memo(h, ps) ==
    IF ps = <<>>
    THEN [raised |-> FALSE, val |-> PyNone, results |-> <<>>, trace |-> <<>>]
    ELSE LET first == evaluate_parameter(h, Head(ps))
             again == \E i \in DOMAIN Tail(ps) : Tail(ps)[i] = Head(ps)
         IN  IF first.out.raised
             THEN [raised |-> TRUE, val |-> first.out.val, results |-> <<>>,
                   trace |-> first.trace]
             ELSE LET rest == evaluate_parameters(h, Tail(ps))
                  IN  [raised |-> rest.raised, val |-> rest.val,
                       results |-> IF rest.raised THEN <<>>
                                   ELSE <<first.out.val>> \o rest.results,
                       trace |-> (IF again THEN <<>> ELSE first.trace) \o rest.trace]

(* A loop that goes on after a parameter has failed, and raises the first  *)
(* failure at its end.                                                     *)
evaluate_parameters_continue(h, ps) ==
    IF ps = <<>>
    THEN [raised |-> FALSE, val |-> PyNone, results |-> <<>>, trace |-> <<>>]
    ELSE LET first == evaluate_parameter(h, Head(ps))
             rest == evaluate_parameters(h, Tail(ps))
         IN  IF first.out.raised
             THEN [raised |-> TRUE, val |-> first.out.val, results |-> <<>>,
                   trace |-> first.trace \o rest.trace]
             ELSE [raised |-> rest.raised, val |-> rest.val,
                   results |-> IF rest.raised THEN <<>>
                               ELSE <<first.out.val>> \o rest.results,
                   trace |-> first.trace \o rest.trace]

(* A loop that evaluates the parameters from right to left, and keeps the  *)
(* results in the order of the parameters.                                 *)
evaluate_parameters_backwards(h, ps) ==
    IF ps = <<>>
    THEN [raised |-> FALSE, val |-> PyNone, results |-> <<>>, trace |-> <<>>]
    ELSE LET rest == evaluate_parameters(h, Tail(ps))
         IN  IF rest.raised THEN rest
             ELSE LET first == evaluate_parameter(h, Head(ps))
                  IN  [raised |-> first.out.raised,
                       val |-> IF first.out.raised THEN first.out.val ELSE PyNone,
                       results |-> IF first.out.raised THEN <<>>
                                   ELSE <<first.out.val>> \o rest.results,
                       trace |-> rest.trace \o first.trace]

(* [parameter.evaluate() for parameter in ...]: the parameters are         *)
(* evaluated from left to right and the first exception ends the loop.  A  *)
(* parameter that is no symbol has no method evaluate (AttributeError).    *)
evaluate_parameters(h, ps) ==
    IF ps = <<>>
    THEN [raised |-> FALSE, val |-> PyNone, results |-> <<>>, trace |-> <<>>]
    ELSE LET first == evaluate_parameter(h, Head(ps))
         IN  IF first.out.raised
             THEN [raised |-> TRUE, val |-> first.out.val, results |-> <<>>,
                   trace |-> first.trace]
             ELSE LET rest == evaluate_parameters(h, Tail(ps))
                  IN  [raised |-> rest.raised, val |-> rest.val,
                       results |-> IF rest.raised THEN <<>>
                                   ELSE <<first.out.val>> \o rest.results,
                       trace |-> first.trace \o rest.trace]

(* symbol.evaluate: the outcome and the trace of h[id].evaluate(). *)
evaluate(h, id) ==
    LET self == h[id]
    IN  IF self.parameters.kind = "None"
        THEN [out |-> Return(self.instance), trace |-> <<Entered(id)>>]
        ELSE LET ps == evaluate_parameters(h, parameter_values(self.parameters))
             IN  IF ps.raised
                 THEN [out |-> [raised |-> TRUE, val |-> ps.val, items |-> <<>>],
                       trace |-> <<Entered(id)>> \o ps.trace]
                 ELSE [out |-> PyCall(self.instance, ps.results),
                       trace |-> <<Entered(id)>> \o ps.trace \o <<Invoked(id)>>]

(* A constructor that starts a symbol with an empty tuple of parameters. *)
symbol_init_empty_tuple(instance) == [instance |-> instance, parameters |-> ParamsTuple(<<>>)]

(* symbol.__init__: self.instance = instance; self.parameters = None *)
symbol_init(instance) == [instance |-> instance, parameters |-> ParamsNone]

(* A binding that stores the positional arguments last to first. *)
bind_parameters_reversed(args, keys, vals) ==
    IF Len(keys) = 0
    THEN ParamsTuple([i \in 1..Len(args) |-> args[Len(args) + 1 - i]])
    ELSE ParamsDict(keys, vals)

(* A binding that takes no arguments at all for no application. *)
bind_parameters_or_none(args, keys, vals) ==
    IF Len(keys) = 0
    THEN IF Len(args) = 0 THEN ParamsNone ELSE ParamsTuple(args)
    ELSE ParamsDict(keys, vals)

(* args if len(kwargs) == 0 else kwargs *)
bind_parameters(args, keys, vals) ==
    IF Len(keys) = 0 THEN ParamsTuple(args) ELSE ParamsDict(keys, vals)

(* An application that binds the arguments to the applied symbol itself    *)
(* and returns it.                                                         *)
symbol_call_in_place(h, self, args, keys, vals) ==
    IF Len(args) > 0 /\ Len(keys) > 0
    THEN [heap |-> h, out |-> Raise("ValueError")]
    ELSE [heap |-> [h EXCEPT ![self].parameters = bind_parameters(args, keys, vals)],
          out |-> Return(PyRef(self))]

(* An application that lets positional and keyword arguments mix, and     *)
(* keeps the keyword ones.                                                 *)
symbol_call_unchecked(h, self, args, keys, vals) ==
    LET s == [symbol_init(h[self].instance)
                EXCEPT !.parameters = bind_parameters(args, keys, vals)]
    IN  [heap |-> Append(h, s), out |-> Return(PyRef(Len(h) + 1))]

(* An application that keeps the parameters the applied symbol has and     *)
(* adds the positional arguments after them.                               *)
symbol_call_appending(h, self, args, keys, vals) ==
    IF Len(args) > 0 /\ Len(keys) > 0
    THEN [heap |-> h, out |-> Raise("ValueError")]
    ELSE LET kept == IF h[self].parameters.kind = "tuple"
                     THEN h[self].parameters.vals ELSE <<>>
             s == [symbol_init(h[self].instance)
                     EXCEPT !.parameters = bind_parameters(kept \o args, keys, vals)]
         IN  [heap |-> Append(h, s), out |-> Return(PyRef(Len(h) + 1))]

(* symbol.__call__: h[self]( *args, **kwargs ), the keyword arguments given  *)
(* as their names `keys` and their values `vals` in the order written.     *)
(* Yields the heap after the call and the call's outcome.                  *)
symbol_call(h, self, args, keys, vals) ==
    IF Len(args) > 0 /\ Len(keys) > 0
    THEN [heap |-> h, out |-> Raise("ValueError")]
    ELSE LET s == [symbol_init(h[self].instance)
                     EXCEPT !.parameters = bind_parameters(args, keys, vals)]
         IN  [heap |-> Append(h, s), out |-> Return(PyRef(Len(h) + 1))]

(* Keys of __getitem__: an integer, or a slice lo:hi (step 1). *)
IntKey(i) == [kind |-> "int", lo |-> i, hi |-> 0]
SliceKey(lo, hi) == [kind |-> "slice", lo |-> lo, hi |-> hi]
NoKey == [kind |-> "none", lo |-> 0, hi |-> 0]

(* A slice bound of a sequence of length n: a negative bound counts from   *)
(* the end, and the bound is clamped to 0..n.                              *)
SliceBound(i, n) ==
    LET j == IF i < 0 THEN i + n ELSE i
    IN  IF j < 0 THEN 0 ELSE IF j > n THEN n ELSE j

(* seq[lo:hi] *)
SliceOf(seq, lo, hi) ==
    LET a == SliceBound(lo, Len(seq))
        b == SliceBound(hi, Len(seq))
    IN  IF a < b THEN SubSeq(seq, a + 1, b) ELSE <<>>

(* seq[key] of a tuple or a list: the item at an integer index (negative   *)
(* from the end, IndexError outside), or the sub-sequence of a slice, of   *)
(* the type of seq.                                                        *)
sequence_getitem(seq, key, type) ==
    IF key.kind = "int"
    THEN LET i == IF key.lo < 0 THEN key.lo + Len(seq) ELSE key.lo
         IN  IF i < 0 \/ i >= Len(seq) THEN Raise("IndexError")
             ELSE Return(seq[i + 1])
    ELSE [raised |-> FALSE, val |-> type, items |-> SliceOf(seq, key.lo, key.hi)]

(* An indexing that takes the values of a dict in the order of their names. *)
symbol_getitem_by_name(h, self, key) ==
    LET p == h[self].parameters
    IN  IF p.kind = "dict"
        THEN sequence_getitem(IF p.keys = <<"y", "x">>
                              THEN <<p.vals[2], p.vals[1]>> ELSE p.vals,
                              key, PyList)
        ELSE IF p.kind = "tuple" THEN sequence_getitem(p.vals, key, PyTuple)
        ELSE Raise("TypeError")

(* symbol.__getitem__: list(self.parameters.values())[key] for a dict,     *)
(* self.parameters[key] otherwise; None[key] is a TypeError.               *)
symbol_getitem(h, self, key) ==
    LET p == h[self].parameters
    IN  IF p.kind = "dict" THEN sequence_getitem(p.vals, key, PyList)
        ELSE IF p.kind = "tuple" THEN sequence_getitem(p.vals, key, PyTuple)
        ELSE Raise("TypeError")

(* symbol.__iter__, run to its end: the items it yields; the for loop over *)
(* None is a TypeError.                                                    *)
symbol_iter(h, self) ==
    LET p == h[self].parameters
    IN  IF p.kind = "None" THEN Raise("TypeError")
        ELSE ReturnList(parameter_values(p))

(* symbol.__len__ *)
symbol_len(h, self) ==
    LET p == h[self].parameters
    IN  IF p.kind # "None" THEN Return(PyInt(Len(p.vals))) ELSE Return(PyInt(0))

----------------------------------------------------------------------------
(* The catalog: the symbols the module creates when it is imported, by     *)
(* their position in the heap.                                             *)

add_ == 1
sub_ == 2
neg_ == 3

Catalog == [i \in 1..Len(CatalogFunctions) |-> symbol_init(PyFn(CatalogFunctions[i]))]

(* symbol.__add__, __sub__, __neg__ *)
symbol_add(h, self, other) == symbol_call(h, add_, <<PyRef(self), PyRef(other)>>, <<>>, <<>>)
symbol_sub(h, self, other) == symbol_call(h, sub_, <<PyRef(self), PyRef(other)>>, <<>>, <<>>)
symbol_neg(h, self) == symbol_call(h, neg_, <<PyRef(self)>>, <<>>, <<>>)

----------------------------------------------------------------------------
(* The inputs of the calls. *)

Values == {PyInt(1), PyInt(2), PyFn("seven"), PyFn("boom")}
KwNames == {"x", "y"}
KwKeys == {<<"x">>, <<"x", "y">>, <<"y", "x">>}
IntKeys == (0 - 1) .. (MaxArgs - 1)
SliceKeys == {SliceKey(lo, hi) : lo \in 0..1, hi \in {1, MaxArgs}}
Keys == {IntKey(i) : i \in IntKeys} \cup SliceKeys

Nodes == 1..Len(heap)
ClientNodes == (Len(Catalog) + 1) .. Len(heap)
Newest == {Len(heap)} \cap ClientNodes
(* The symbols the application call is tried on: those the client made and *)
(* one of the catalog (the others are applied by the operators).           *)
Applicable == {sub_} \cup ClientNodes
Refs == {PyRef(id) : id \in ClientNodes}

SeqsUpTo(S, n) == UNION {[1..k -> S] : k \in 0..n}

(* The arguments of an application call: positional ones only, keyword     *)
(* ones only (distinct names), or one positional and one keyword argument. *)
CallArguments ==
    {[args |-> a, keys |-> <<>>, vals |-> <<>>] : a \in SeqsUpTo(Refs, MaxArgs)}
    \cup {[args |-> <<>>, keys |-> k, vals |-> v] :
            <<k, v>> \in {kv \in KwKeys \X SeqsUpTo(Refs, MaxArgs) :
                            Len(kv[1]) = Len(kv[2])}}
    \cup {[args |-> <<a>>, keys |-> <<k>>, vals |-> <<v>>] :
            <<a, k, v>> \in Refs \X KwNames \X Refs}

CanCreate == Len(heap) < Len(Catalog) + MaxNodes

(* The record of a creating call. *)
Declared(payload, applied, args, keys, vals) ==
    [payload |-> payload, applied |-> applied, args |-> args, keys |-> keys, vals |-> vals]

(* declared after a call of h[self] that left the heap r.heap. *)
Declare(r, self, args, keys, vals) ==
    IF Len(r.heap) > Len(heap)
    THEN Append(declared, Declared(heap[self].instance, TRUE, args, keys, vals))
    ELSE declared

Called(op, self, args, keys, vals, key) ==
    [op |-> op, self |-> self, args |-> args, keys |-> keys, vals |-> vals, key |-> key]

----------------------------------------------------------------------------
(* The state after `from symbolism import *`, and one action per method.   *)

Init ==
    /\ heap = Catalog
    /\ declared = [i \in 1..Len(Catalog) |->
                    Declared(PyFn(CatalogFunctions[i]), FALSE, <<>>, <<>>, <<>>)]
    /\ last = Called("import", 0, <<>>, <<>>, <<>>, NoKey)
    /\ result = Return(PyNone)
    /\ trace = <<>>
    /\ threads = <<>>

(* symbol(v) *)
Construct(v) ==
    /\ CanCreate
    /\ heap' = Append(heap, symbol_init(v))
    /\ declared' = Append(declared, Declared(v, FALSE, <<>>, <<>>, <<>>))
    /\ last' = Called("__init__", Len(heap) + 1, <<v>>, <<>>, <<>>, NoKey)
    /\ result' = Return(PyRef(Len(heap) + 1))
    /\ trace' = <<>>
    /\ UNCHANGED threads

(* heap[self]( *args, **kwargs ) *)
Apply(self, c) ==
    /\ CanCreate
    /\ LET r == symbol_call(heap, self, c.args, c.keys, c.vals)
       IN  /\ heap' = r.heap
           /\ declared' = Declare(r, self, c.args, c.keys, c.vals)
           /\ result' = r.out
    /\ last' = Called("__call__", self, c.args, c.keys, c.vals, NoKey)
    /\ trace' = <<>>
    /\ UNCHANGED threads

(* heap[self] + heap[other] *)
Add(self, other) ==
    /\ CanCreate
    /\ LET r == symbol_add(heap, self, other)
       IN  /\ heap' = r.heap
           /\ declared' = Declare(r, add_, <<PyRef(self), PyRef(other)>>, <<>>, <<>>)
           /\ result' = r.out
    /\ last' = Called("__add__", self, <<PyRef(other)>>, <<>>, <<>>, NoKey)
    /\ trace' = <<>>
    /\ UNCHANGED threads

(* heap[self] - heap[other] *)
Sub(self, other) ==
    /\ CanCreate
    /\ LET r == symbol_sub(heap, self, other)
       IN  /\ heap' = r.heap
           /\ declared' = Declare(r, sub_, <<PyRef(self), PyRef(other)>>, <<>>, <<>>)
           /\ result' = r.out
    /\ last' = Called("__sub__", self, <<PyRef(other)>>, <<>>, <<>>, NoKey)
    /\ trace' = <<>>
    /\ UNCHANGED threads

(* -heap[self] *)
Neg(self) ==
    /\ CanCreate
    /\ LET r == symbol_neg(heap, self)
       IN  /\ heap' = r.heap
           /\ declared' = Declare(r, neg_, <<PyRef(self)>>, <<>>, <<>>)
           /\ result' = r.out
    /\ last' = Called("__neg__", self, <<>>, <<>>, <<>>, NoKey)
    /\ trace' = <<>>
    /\ UNCHANGED threads

(* heap[self][key] *)
GetItem(self, key) ==
    /\ result' = symbol_getitem(heap, self, key)
    /\ last' = Called("__getitem__", self, <<>>, <<>>, <<>>, key)
    /\ trace' = <<>>
    /\ UNCHANGED <<heap, declared, threads>>

(* list(iter(heap[self])) *)
Iterate(self) ==
    /\ result' = symbol_iter(heap, self)
    /\ last' = Called("__iter__", self, <<>>, <<>>, <<>>, NoKey)
    /\ trace' = <<>>
    /\ UNCHANGED <<heap, declared, threads>>

(* len(heap[self]) *)
Length(self) ==
    /\ result' = symbol_len(heap, self)
    /\ last' = Called("__len__", self, <<>>, <<>>, <<>>, NoKey)
    /\ trace' = <<>>
    /\ UNCHANGED <<heap, declared, threads>>

(* heap[self].evaluate() *)
Evaluate(self) ==
    /\ LET r == evaluate(heap, self)
       IN  /\ result' = r.out
           /\ trace' = r.trace
    /\ last' = Called("evaluate", self, <<>>, <<>>, <<>>, NoKey)
    /\ UNCHANGED <<heap, declared, threads>>

Next ==
    \/ \E v \in Values : Construct(v)
    \/ \E self \in Applicable, c \in CallArguments : Apply(self, c)
    \/ \E self, other \in ClientNodes : Add(self, other)
    \/ \E self, other \in ClientNodes : Sub(self, other)
    \/ \E self \in ClientNodes : Neg(self)
    \/ \E self \in Newest, key \in Keys : GetItem(self, key)
    \/ \E self \in Newest : Iterate(self)
    \/ \E self \in Newest : Length(self)
    \/ \E self \in ClientNodes : Evaluate(self)

Spec == Init /\ [][Next]_vars

----------------------------------------------------------------------------
(* The whole catalog applied to two integer leaves.                        *)

MaxInt == 2

FullCatalog ==
    [i \in 1..Len(FullCatalogFunctions) |-> symbol_init(PyFn(FullCatalogFunctions[i]))]

(* The position in the catalog of the symbol of function f. *)
CatalogIndex(f) == CHOOSE i \in 1..Len(FullCatalogFunctions) : FullCatalogFunctions[i] = f

(* The catalog function each operator method applies. *)
OperatorFunction ==
    [__add__ |-> "_add_", __sub__ |-> "_sub_", __mul__ |-> "_mul_",
     __matmul__ |-> "_matmul_", __truediv__ |-> "_div_",
     __floordiv__ |-> "_floordiv_", __mod__ |-> "_mod_", __pow__ |-> "_pow_",
     __lshift__ |-> "_lshift_", __rshift__ |-> "_rshift_",
     __and__ |-> "_bitand_", __xor__ |-> "_bitxor_", __or__ |-> "_bitor_",
     __neg__ |-> "_neg_", __pos__ |-> "_pos_", __invert__ |-> "_invert_",
     __eq__ |-> "_eq_", __ne__ |-> "_ne_", __lt__ |-> "_lt_", __le__ |-> "_le_",
     __gt__ |-> "_gt_", __ge__ |-> "_ge_"]
Operators == DOMAIN OperatorFunction
UnaryOperators == {"__neg__", "__pos__", "__invert__"}

(* An operator method that applies the catalog symbol of addition. *)
symbol_operator_add(h, name, self, other) ==
    symbol_call(h, add_, <<PyRef(self), other>>, <<>>, <<>>)

(* symbol.__add__ ... symbol.__ge__: heap[self] <name> other, other any    *)
(* value                                                                   *)
symbol_operator(h, name, self, other) ==
    symbol_call(h, CatalogIndex(OperatorFunction[name]),
                IF name \in UnaryOperators THEN <<PyRef(self)>>
                ELSE <<PyRef(self), other>>, <<>>, <<>>)

(* bool(v): a symbol has no __bool__, so its __len__ decides. *)
object_bool(h, v) ==
    IF v.kind = "symbol" THEN symbol_len(h, v.n).val.n # 0 ELSE Truthy(v)

(* c == x: the __eq__ of a symbol on either side makes a node; other       *)
(* values are compared.  Gives the heap after and the value.               *)
object_eq(h, c, x) ==
    IF c.kind = "symbol" THEN symbol_operator(h, "__eq__", c.n, x)
    ELSE IF x.kind = "symbol" THEN symbol_operator(h, "__eq__", x.n, c)
    ELSE [heap |-> h, out |-> Return(PyBool(c = x))]

(* The search of x among items from the k-th on: an item is found that is  *)
(* x, or whose == with x is true.                                          *)
RECURSIVE iter_search(_, _, _, _)
iter_search(h, items, k, x) ==
    IF k > Len(items) THEN [heap |-> h, out |-> Return(PyBool(FALSE))]
    ELSE IF items[k] = x /\ x.kind = "symbol"
         THEN [heap |-> h, out |-> Return(PyBool(TRUE))]
    ELSE LET r == object_eq(h, items[k], x)
         IN  IF object_bool(r.heap, r.out.val)
             THEN [heap |-> r.heap, out |-> Return(PyBool(TRUE))]
             ELSE iter_search(r.heap, items, k + 1, x)

(* x in heap[self]: symbol has no __contains__, so the host walks          *)
(* iter(heap[self]).                                                       *)
symbol_contains(h, self, x) ==
    LET it == symbol_iter(h, self)
    IN  IF it.raised THEN [heap |-> h, out |-> it]
        ELSE iter_search(h, it.items, 1, x)

(* The two operand leaves. *)
X == Len(FullCatalog) + 1
Y == Len(FullCatalog) + 2
Ints == (0 - MaxInt) .. MaxInt

InitCatalog ==
    /\ \E x, y \in Ints :
         /\ heap = FullCatalog \o <<symbol_init(PyInt(x)), symbol_init(PyInt(y))>>
         /\ declared = [i \in 1..Len(FullCatalog) |->
                         Declared(PyFn(FullCatalogFunctions[i]), FALSE, <<>>, <<>>, <<>>)]
                       \o <<Declared(PyInt(x), FALSE, <<>>, <<>>, <<>>),
                            Declared(PyInt(y), FALSE, <<>>, <<>>, <<>>)>>
    /\ last = Called("import", 0, <<>>, <<>>, <<>>, NoKey)
    /\ result = Return(PyNone)
    /\ trace = <<>>
    /\ threads = <<>>

(* One expression is built on the operands. *)
NoExpression == Len(heap) = Y

(* heap[c](X) or heap[c](X, Y), c a symbol of the catalog *)
CatalogApply(c, args) ==
    /\ NoExpression
    /\ LET r == symbol_call(heap, c, args, <<>>, <<>>)
       IN  /\ heap' = r.heap
           /\ declared' = Declare(r, c, args, <<>>, <<>>)
           /\ result' = r.out
    /\ last' = Called("__call__", c, args, <<>>, <<>>, NoKey)
    /\ trace' = <<>>
    /\ UNCHANGED threads

(* heap[X] <name> heap[Y], or <name> heap[X] *)
Operator(name) ==
    /\ NoExpression
    /\ LET r == symbol_operator(heap, name, X, PyRef(Y))
           args == IF name \in UnaryOperators THEN <<PyRef(X)>> ELSE <<PyRef(X), PyRef(Y)>>
       IN  /\ heap' = r.heap
           /\ declared' = Declare(r, CatalogIndex(OperatorFunction[name]), args, <<>>, <<>>)
           /\ result' = r.out
    /\ last' = Called(name, X, IF name \in UnaryOperators THEN <<>> ELSE <<PyRef(Y)>>,
                      <<>>, <<>>, NoKey)
    /\ trace' = <<>>
    /\ UNCHANGED threads

(* x in heap[self], once the expression is built *)
Contains(self, x) ==
    /\ Len(heap) = Y + 1
    /\ LET r == symbol_contains(heap, self, x)
       IN  /\ heap' = r.heap
           /\ declared' = IF Len(r.heap) > Len(heap)
                           THEN Append(declared,
                                       Declared(PyFn("_eq_"), TRUE,
                                                r.heap[Len(r.heap)].parameters.vals,
                                                <<>>, <<>>))
                           ELSE declared
           /\ result' = r.out
    /\ last' = Called("__contains__", self, <<x>>, <<>>, <<>>, NoKey)
    /\ trace' = <<>>
    /\ UNCHANGED threads

NextCatalog ==
    \/ \E c \in 1..Len(FullCatalog), args \in {<<PyRef(X)>>, <<PyRef(X), PyRef(Y)>>} :
         CatalogApply(c, args)
    \/ \E name \in Operators : Operator(name)
    \/ \E self \in {X, Y + 1}, x \in {PyRef(X), PyRef(Y), PyInt(1)} : Contains(self, x)
    \/ \E self \in (X .. Y + 1) \cap (1 .. Len(heap)) : Evaluate(self)

SpecCatalog == InitCatalog /\ [][NextCatalog]_vars

----------------------------------------------------------------------------
(* The boolean entries of the catalog applied to a leaf P and to an        *)
(* application Q = heap[F]() or heap[F](heap[P]) of a client function.     *)

and_ == CatalogIndex("_and_")
or_ == CatalogIndex("_or_")

P == Len(FullCatalog) + 1
F == Len(FullCatalog) + 2
Q == Len(FullCatalog) + 3
BoolValues == {PyBool(FALSE), PyBool(TRUE), PyInt(0), PyInt(1)}

InitBool ==
    /\ \E v \in BoolValues, f \in ClientFunctions, args \in {<<>>, <<PyRef(P)>>} :
         LET leaves == FullCatalog \o <<symbol_init(v), symbol_init(PyFn(f))>>
         IN  /\ heap = symbol_call(leaves, F, args, <<>>, <<>>).heap
             /\ declared = [i \in 1..Len(FullCatalog) |->
                             Declared(PyFn(FullCatalogFunctions[i]), FALSE, <<>>, <<>>, <<>>)]
                           \o <<Declared(v, FALSE, <<>>, <<>>, <<>>),
                                Declared(PyFn(f), FALSE, <<>>, <<>>, <<>>),
                                Declared(PyFn(f), TRUE, args, <<>>, <<>>)>>
    /\ last = Called("import", 0, <<>>, <<>>, <<>>, NoKey)
    /\ result = Return(PyNone)
    /\ trace = <<>>
    /\ threads = <<>>

(* and_(heap[x], heap[y]), or_(heap[x], heap[y]) *)
BoolApply(c, x, y) ==
    /\ Len(heap) = Q
    /\ LET args == <<PyRef(x), PyRef(y)>>
           r == symbol_call(heap, c, args, <<>>, <<>>)
       IN  /\ heap' = r.heap
           /\ declared' = Declare(r, c, args, <<>>, <<>>)
           /\ result' = r.out
           /\ last' = Called("__call__", c, args, <<>>, <<>>, NoKey)
    /\ trace' = <<>>
    /\ UNCHANGED threads

NextBool ==
    \/ \E c \in {and_, or_}, x, y \in {P, Q} : BoolApply(c, x, y)
    \/ \E self \in {P, Q, Q + 1} \cap 1..Len(heap) : Evaluate(self)

SpecBool == InitBool /\ [][NextBool]_vars

----------------------------------------------------------------------------
(* Evaluations that run concurrently, a step at a time.  A thread has the  *)
(* call stack of its evaluate() calls: a frame per call, with the node     *)
(* (self) and the list of results the comprehension has built so far.  The *)
(* frames and the lists are local to the thread; the heap is shared.       *)

MaxThreads == 2

Frame(id, results) == [node |-> id, results |-> results]
Thread(root, stack, done, out) == [root |-> root, stack |-> stack, done |-> done, out |-> out]

(* The thread t after its innermost call returned v: the caller appends v  *)
(* to its list, or the thread ends.                                        *)
thread_return(t, v) ==
    LET n == Len(t.stack)
    IN  IF n = 1 THEN Thread(t.root, <<>>, TRUE, Return(v))
        ELSE LET caller == t.stack[n - 1]
             IN  Thread(t.root,
                        SubSeq(t.stack, 1, n - 2)
                            \o <<Frame(caller.node, Append(caller.results, v))>>,
                        FALSE, t.out)

(* The thread t after an exception: no frame catches it. *)
thread_raise(t, out) == Thread(t.root, <<>>, TRUE, out)

(* One step of thread t on heap h: the innermost evaluate() call returns   *)
(* the payload of a leaf, calls evaluate() on its next parameter, or       *)
(* invokes its payload on the results.                                     *)
thread_step(h, t) ==
    LET frame == t.stack[Len(t.stack)]
        self == h[frame.node]
        ps == parameter_values(self.parameters)
        k == Len(frame.results)
    IN  IF self.parameters.kind = "None" THEN thread_return(t, self.instance)
        ELSE IF k < Len(ps)
             THEN IF ps[k + 1].kind = "symbol"
                  THEN Thread(t.root, Append(t.stack, Frame(ps[k + 1].n, <<>>)), FALSE, t.out)
                  ELSE thread_raise(t, Raise("AttributeError"))
        ELSE LET out == PyCall(self.instance, frame.results)
             IN  IF out.raised THEN thread_raise(t, out) ELSE thread_return(t, out.val)

(* Steps whose lists of results belong to the node, not to the call: a     *)
(* value returned to a call on a node reaches every call on that node.     *)
evaluate_step_shared(h, ts, e) ==
    LET after == thread_step(h, ts[e])
        grew == /\ ~after.done /\ Len(after.stack) < Len(ts[e].stack)
        top == after.stack[Len(after.stack)]
    IN  [i \in 1..Len(ts) |->
            IF i = e THEN after
            ELSE IF grew /\ ~ts[i].done
                 THEN Thread(ts[i].root,
                             [j \in 1..Len(ts[i].stack) |->
                                 IF ts[i].stack[j].node = top.node
                                 THEN Frame(top.node,
                                            Append(ts[i].stack[j].results,
                                                   top.results[Len(top.results)]))
                                 ELSE ts[i].stack[j]],
                             FALSE, ts[i].out)
                 ELSE ts[i]]

(* The threads ts after a step of thread e: the step changes the stack of  *)
(* thread e alone.                                                         *)
evaluate_step(h, ts, e) == [ts EXCEPT ![e] = thread_step(h, ts[e])]

(* Two leaves and two expressions over them, the second over the first.    *)
A == Len(Catalog) + 1
B == Len(Catalog) + 2
E1 == Len(Catalog) + 3
E2 == Len(Catalog) + 4
SharedCalls ==
    {[c1 |-> c1, a1 |-> a1, c2 |-> c2, a2 |-> a2] :
        c1 \in {sub_, neg_}, a1 \in {<<PyRef(A), PyRef(B)>>, <<PyRef(B)>>},
        c2 \in {add_, sub_}, a2 \in {<<PyRef(E1), PyRef(A)>>, <<PyRef(E1), PyRef(E1)>>}}

InitConcurrent ==
    /\ \E a \in {PyInt(1), PyInt(2)}, b \in {PyInt(2), PyFn("boom")}, s \in SharedCalls :
         LET leaves == Catalog \o <<symbol_init(a), symbol_init(b)>>
             first == symbol_call(leaves, s.c1, s.a1, <<>>, <<>>).heap
         IN  /\ heap = symbol_call(first, s.c2, s.a2, <<>>, <<>>).heap
             /\ declared = [i \in 1..Len(Catalog) |->
                             Declared(PyFn(CatalogFunctions[i]), FALSE, <<>>, <<>>, <<>>)]
                           \o <<Declared(a, FALSE, <<>>, <<>>, <<>>),
                                Declared(b, FALSE, <<>>, <<>>, <<>>),
                                Declared(PyFn(CatalogFunctions[s.c1]), TRUE, s.a1, <<>>, <<>>),
                                Declared(PyFn(CatalogFunctions[s.c2]), TRUE, s.a2, <<>>, <<>>)>>
    /\ last = Called("import", 0, <<>>, <<>>, <<>>, NoKey)
    /\ result = Return(PyNone)
    /\ trace = <<>>
    /\ threads = <<>>

(* A thread calls heap[root].evaluate(). *)
StartThread(root) ==
    /\ Len(threads) < MaxThreads
    /\ threads' = Append(threads, Thread(root, <<Frame(root, <<>>)>>, FALSE, Return(PyNone)))
    /\ UNCHANGED <<heap, declared, last, result, trace>>

(* A thread takes its next step. *)
StepThread(e) ==
    /\ ~threads[e].done
    /\ threads' = evaluate_step(heap, threads, e)
    /\ UNCHANGED <<heap, declared, last, result, trace>>

NextConcurrent ==
    \/ \E root \in {E1, E2} : StartThread(root)
    \/ \E e \in 1..Len(threads) : StepThread(e)

SpecConcurrent == InitConcurrent /\ [][NextConcurrent]_vars

----------------------------------------------------------------------------
(* What the claims speak of. *)

(* The children of an object in the order its creating call declared them. *)
DeclaredChildren(id) ==
    IF declared[id].keys = <<>> THEN declared[id].args ELSE declared[id].vals

IsLeaf(id) == ~declared[id].applied
IsPositional(id) == declared[id].applied /\ declared[id].keys = <<>>
IsNamed(id) == declared[id].applied /\ declared[id].keys # <<>>

(* The outcome of evaluating object id in the current heap. *)
Outcome(id) == evaluate(heap, id).out

(* The values the declared children of id evaluate to, when all of them do. *)
ChildrenSucceed(id) ==
    \A i \in DOMAIN DeclaredChildren(id) : ~Outcome(DeclaredChildren(id)[i].n).raised
ChildResults(id) ==
    [i \in DOMAIN DeclaredChildren(id) |-> Outcome(DeclaredChildren(id)[i].n).val]

Reversed(s) == [i \in 1..Len(s) |-> s[Len(s) + 1 - i]]
Count(s, e) == Cardinality({i \in DOMAIN s : s[i] = e})

(* callee( **kwargs ): the named calling convention.  Every name must be a   *)
(* parameter of the callee and every parameter must be given; each value   *)
(* is bound to the parameter of its name.                                  *)
PyCallNamed(callee, keys, vals) ==
    IF callee.kind # "function" THEN Raise("TypeError")
    ELSE LET names == ParamNames(callee.name)
             given == {keys[i] : i \in DOMAIN keys}
             wanted == {names[i] : i \in DOMAIN names}
         IN  IF given # wanted THEN Raise("TypeError")
             ELSE Body(callee.name,
                       [i \in DOMAIN names |->
                          vals[CHOOSE j \in DOMAIN keys : keys[j] = names[i]]])

(* C1: the evaluation of a node applied to n >= 1 positional arguments,   *)
(* whose payload is a callable f and whose arguments all evaluate, is f    *)
(* called with the arguments' values in the order they were given to the   *)
(* application; the arguments may be application nodes themselves.         *)
C1_PositionalApplication ==
    /\ \A id \in ClientNodes :
          (/\ IsPositional(id)
           /\ Len(declared[id].args) >= 1
           /\ declared[id].payload.kind = "function"
           /\ ChildrenSucceed(id))
          => Outcome(id) = PyCall(declared[id].payload, ChildResults(id))
    /\ (/\ last.op = "evaluate"
        /\ IsPositional(last.self)
        /\ Len(declared[last.self].args) >= 1
        /\ declared[last.self].payload.kind = "function"
        /\ ChildrenSucceed(last.self))
       => result = PyCall(declared[last.self].payload, ChildResults(last.self))

(* Witness of C1: a node of two different arguments, the second of them an *)
(* application node, was evaluated to a value that the arguments in the    *)
(* other order do not give.                                                *)
C1_Witness ==
    /\ last.op = "evaluate"
    /\ IsPositional(last.self)
    /\ Len(declared[last.self].args) = 2
    /\ declared[last.self].args[1] # declared[last.self].args[2]
    /\ declared[declared[last.self].args[2].n].applied
    /\ ~result.raised
    /\ PyCall(declared[last.self].payload, Reversed(ChildResults(last.self))) # result

(* C2: a node made from a value v and never applied is a leaf, and its     *)
(* evaluation returns v itself, invoking nothing, also when v is callable. *)
C2_LeafEvaluatesToPayload ==
    /\ \A id \in Nodes :
          IsLeaf(id) =>
            /\ heap[id].parameters.kind = "None"
            /\ Outcome(id) = Return(declared[id].payload)
    /\ (last.op = "evaluate" /\ IsLeaf(last.self))
       => /\ result = Return(declared[last.self].payload)
          /\ \A i \in DOMAIN trace : trace[i].ev # "invoke"

(* Witness of C2: a leaf that holds a callable was evaluated. *)
C2_Witness ==
    /\ last.op = "evaluate"
    /\ IsLeaf(last.self)
    /\ declared[last.self].payload.kind = "function"
    /\ result.val = declared[last.self].payload

(* C3: the evaluation of a node applied to named arguments only calls the  *)
(* payload with each argument's value under the name it was bound to,      *)
(* whatever the order the names were written in.                           *)
C3_NamedApplication ==
    \A id \in ClientNodes :
        (/\ IsNamed(id)
         /\ declared[id].payload.kind = "function"
         /\ ChildrenSucceed(id))
        => Outcome(id) = PyCallNamed(declared[id].payload, declared[id].keys,
                                     ChildResults(id))

(* C4: a leaf applied to no argument is an application node, not a leaf:   *)
(* its length is 0 and its evaluation is the payload called with no        *)
(* argument; the length of a leaf is 0 and its evaluation is the payload,  *)
(* not called.                                                             *)
C4_ZeroArguments ==
    /\ \A id \in ClientNodes :
          (IsPositional(id) /\ declared[id].args = <<>>) =>
            /\ heap[id].parameters.kind # "None"
            /\ symbol_len(heap, id) = Return(PyInt(0))
            /\ Outcome(id) = PyCall(declared[id].payload, <<>>)
            /\ Count(evaluate(heap, id).trace, Invoked(id)) = 1
    /\ \A id \in Nodes :
          IsLeaf(id) =>
            /\ symbol_len(heap, id) = Return(PyInt(0))
            /\ Outcome(id) = Return(declared[id].payload)
            /\ Count(evaluate(heap, id).trace, Invoked(id)) = 0
    /\ (last.op = "evaluate" /\ IsPositional(last.self)
                             /\ declared[last.self].args = <<>>)
       => result = PyCall(declared[last.self].payload, <<>>)
    /\ (last.op = "__len__" /\ DeclaredChildren(last.self) = <<>>)
       => result = Return(PyInt(0))

(* Witness of C4: a callable applied to no argument was evaluated, and the *)
(* outcome is what the call returns, not the callable.                     *)
C4_Witness ==
    /\ last.op = "evaluate"
    /\ IsPositional(last.self)
    /\ declared[last.self].args = <<>>
    /\ declared[last.self].payload = PyFn("seven")
    /\ result = Return(PyInt(7))

(* C5: an application call with at least one positional and at least one   *)
(* named argument raises ValueError, creates no object and changes none;   *)
(* a call with arguments of one form only does not raise.                  *)
C5_NoMixedArguments ==
    [][last'.op = "__call__" =>
         IF Len(last'.args) > 0 /\ Len(last'.keys) > 0
         THEN /\ result' = Raise("ValueError")
              /\ heap' = heap
         ELSE /\ ~result'.raised
              /\ Len(heap') = Len(heap) + 1]_vars

(* Witness of C5: a call mixing the two forms was made and was refused. *)
C5_Witness ==
    /\ last.op = "__call__"
    /\ Len(last.args) > 0
    /\ Len(last.keys) > 0
    /\ result = Raise("ValueError")

IsCreation(op) == op \in {"__call__", "__add__", "__sub__", "__neg__"}

(* C6: no operation changes the payload or the children of an object that  *)
(* exists: an application returns a new object, a leaf stays childless     *)
(* (the applied symbol and the catalog entries the operators use among     *)
(* them), every object keeps the payload and the children it was created   *)
(* with, and evaluates as before.                                          *)
C6_ObjectsNeverChange ==
    /\ [](\A id \in Nodes :
            /\ heap[id].instance = declared[id].payload
            /\ parameter_values(heap[id].parameters) = DeclaredChildren(id)
            /\ (heap[id].parameters.kind = "None") = IsLeaf(id))
    /\ [][/\ Len(heap') >= Len(heap)
          /\ \A id \in 1..Len(heap) :
                /\ heap'[id] = heap[id]
                /\ evaluate(heap', id) = evaluate(heap, id)
          /\ (IsCreation(last'.op) /\ ~result'.raised) =>
                /\ Len(heap') = Len(heap) + 1
                /\ result'.val = PyRef(Len(heap) + 1)]_vars

(* Witness of C6: the operator + was used twice, and the two nodes it made *)
(* have the payload of add_ and children of their own, while add_ is still *)
(* a leaf.                                                                 *)
C6_Witness ==
    /\ last.op = "__add__"
    /\ heap[add_].parameters.kind = "None"
    /\ \E e1, e2 \in ClientNodes :
          /\ e1 # e2
          /\ declared[e1].applied /\ declared[e2].applied
          /\ heap[e1].instance = heap[add_].instance
          /\ heap[e2].instance = heap[add_].instance
          /\ heap[e1].parameters.vals # heap[e2].parameters.vals
          /\ Outcome(e1) # Outcome(e2)

(* The number of times object id is met on the paths from root down the    *)
(* declared children.                                                      *)
RECURSIVE Occurrences(_, _)
RECURSIVE OccurrencesBelow(_, _)
OccurrencesBelow(children, id) ==
    IF children = <<>> THEN 0
    ELSE Occurrences(Head(children).n, id) + OccurrencesBelow(Tail(children), id)
Occurrences(root, id) ==
    (IF root = id THEN 1 ELSE 0) + OccurrencesBelow(DeclaredChildren(root), id)

(* C7: nothing is memoized.  In an evaluation that succeeds, an object met *)
(* k times on the paths from the root is evaluated k times, and its        *)
(* payload is invoked k times when it is an application node (never when   *)
(* it is a leaf); without sharing k is 1.  The trace of an evaluation is   *)
(* the whole of it whatever was evaluated before.                          *)
C7_NoMemoization ==
    (last.op = "evaluate" /\ ~result.raised) =>
        \A id \in Nodes :
            /\ Count(trace, Entered(id)) = Occurrences(last.self, id)
            /\ Count(trace, Invoked(id)) =
                  IF declared[id].applied THEN Occurrences(last.self, id) ELSE 0

(* Witness of C7: the evaluated root has the same application node as a    *)
(* child twice, and that node's payload was invoked twice.                 *)
C7_Witness ==
    /\ last.op = "evaluate"
    /\ ~result.raised
    /\ \E id \in ClientNodes :
          /\ declared[id].applied
          /\ Occurrences(last.self, id) = 2
          /\ Count(trace, Invoked(id)) = 2

(* C8: an evaluation that fails ends with the payload invocation that      *)
(* failed: its failure is the outcome of the root's evaluation, every      *)
(* invocation before it succeeded, it was tried once, no ancestor of the   *)
(* failing node was invoked, and no child of the root declared after the   *)
(* failing child was evaluated.                                            *)
C8_FailurePropagates ==
    (last.op = "evaluate" /\ result.raised) =>
        /\ trace # <<>>
        /\ trace[Len(trace)].ev = "invoke"
        /\ LET f == trace[Len(trace)].node
           IN  /\ ChildrenSucceed(f)
               /\ result = PyCall(declared[f].payload, ChildResults(f))
               /\ Count(trace, Invoked(f)) = 1
               /\ \A i \in 1..(Len(trace) - 1) :
                     trace[i].ev = "invoke" => ~Outcome(trace[i].node).raised
               /\ \A a \in Nodes :
                     (a # f /\ Occurrences(a, f) > 0) => Count(trace, Invoked(a)) = 0
        /\ LET cs == DeclaredChildren(last.self)
           IN  \A i, j \in DOMAIN cs :
                  (/\ i < j
                   /\ Outcome(cs[i].n).raised
                   /\ \A k \in 1..i : Occurrences(cs[k].n, cs[j].n) = 0)
                  => Count(trace, Entered(cs[j].n)) = 0

(* Witness of C8: the first child of the evaluated root failed; the root   *)
(* was not invoked and its second child, another object, not evaluated.    *)
C8_Witness ==
    /\ last.op = "evaluate"
    /\ result.raised
    /\ Len(DeclaredChildren(last.self)) = 2
    /\ LET c1 == DeclaredChildren(last.self)[1].n
           c2 == DeclaredChildren(last.self)[2].n
       IN  /\ c1 # c2
           /\ trace[Len(trace)] = Invoked(c1)
           /\ result = Outcome(c1)
           /\ Count(trace, Entered(c2)) = 0
           /\ Count(trace, Invoked(last.self)) = 0

(* C9: iterating an application node yields its children, never their     *)
(* names, in the order they were declared, every time; a node of named     *)
(* arguments yields what the node of the same arguments given by position  *)
(* yields.                                                                 *)
C9_IterationYieldsChildren ==
    /\ (last.op = "__iter__" /\ declared[last.self].applied)
       => result = ReturnList(DeclaredChildren(last.self))
    /\ \A e1, e2 \in ClientNodes :
          (IsNamed(e1) /\ IsPositional(e2) /\ declared[e1].vals = declared[e2].args)
          => symbol_iter(heap, e1) = symbol_iter(heap, e2)

(* Witness of C9: a node of two different children bound to the names y    *)
(* and x, in this order, was iterated.                                     *)
C9_Witness ==
    /\ last.op = "__iter__"
    /\ declared[last.self].keys = <<"y", "x">>
    /\ declared[last.self].vals[1] # declared[last.self].vals[2]
    /\ result.items = declared[last.self].vals

Min(a, b) == IF a < b THEN a ELSE b

(* C10: indexing an application node indexes the sequence of its children  *)
(* in declaration order, for both binding forms: an integer i in range     *)
(* gives the i-th child declared (never the child of some name), and a     *)
(* range lo:hi the children at the positions lo..hi-1.                     *)
C10_IndexingByPosition ==
    (last.op = "__getitem__" /\ declared[last.self].applied) =>
        LET cs == DeclaredChildren(last.self)
            n == Len(cs)
            k == last.key
        IN  /\ (k.kind = "int" /\ 0 <= k.lo /\ k.lo < n)
               => result = Return(cs[k.lo + 1])
            /\ (k.kind = "slice" /\ 0 <= k.lo /\ k.lo <= k.hi)
               => /\ ~result.raised
                  /\ result.items =
                        [j \in 1..(Min(k.hi, n) - Min(k.lo, n)) |-> cs[k.lo + j]]

(* Witness of C10: a node of two different children bound to the names y   *)
(* and x, in this order, was indexed with 1 and gave the child declared    *)
(* second.                                                                 *)
C10_Witness ==
    /\ last.op = "__getitem__"
    /\ declared[last.self].keys = <<"y", "x">>
    /\ declared[last.self].vals[1] # declared[last.self].vals[2]
    /\ last.key = IntKey(1)
    /\ result = Return(declared[last.self].vals[2])

----------------------------------------------------------------------------
(* The host's operations on ints, said without the catalog's functions.    *)

(* The ints a result of an operation on Ints can be. *)
Results == (0 - 64) .. 64

(* The floor of x / y: the q with y*q <= x < y*(q+1), or its mirror image  *)
(* for a negative y.                                                       *)
NativeFloor(x, y) ==
    CHOOSE q \in Results :
        IF y > 0 THEN y * q <= x /\ x < y * (q + 1)
        ELSE y * q >= x /\ x > y * (q + 1)

(* The remainder, of the sign of y. *)
NativeRemainder(x, y) ==
    CHOOSE r \in Results :
        /\ \E q \in Results : x = y * q + r
        /\ IF y > 0 THEN 0 <= r /\ r < y ELSE y < r /\ r <= 0

(* Bit i of the two's complement of x. *)
Bit(x, i) == (x \div Power(2, i)) % 2
BitPositions == 0 .. 7
(* The int whose every bit is f of the bits of x and y. *)
Bitwise(f(_, _), x, y) ==
    CHOOSE r \in Results : \A i \in BitPositions : Bit(r, i) = f(Bit(x, i), Bit(y, i))
BothBits(a, b) == a * b
EitherBit(a, b) == IF a + b > 0 THEN 1 ELSE 0
OneBit(a, b) == IF a + b = 1 THEN 1 ELSE 0

ArithmeticFunctions ==
    {"_add_", "_sub_", "_mul_", "_floordiv_", "_mod_", "_pow_", "_lshift_",
     "_rshift_", "_bitand_", "_bitxor_", "_bitor_", "_eq_", "_ne_", "_lt_",
     "_le_", "_gt_", "_ge_", "_neg_", "_pos_", "_invert_"}

(* The outcome of the host's operation of catalog function f on ints x, y  *)
(* (on x alone, f being unary).                                            *)
Native(f, x, y) ==
    CASE f = "_add_" -> Return(PyInt(x + y))
      [] f = "_sub_" -> Return(PyInt(x - y))
      [] f = "_mul_" -> Return(PyInt(x * y))
      [] f = "_floordiv_" ->
            IF y = 0 THEN Raise("ZeroDivisionError") ELSE Return(PyInt(NativeFloor(x, y)))
      [] f = "_mod_" ->
            IF y = 0 THEN Raise("ZeroDivisionError") ELSE Return(PyInt(NativeRemainder(x, y)))
      [] f = "_pow_" ->
            IF y >= 0 THEN Return(PyInt(Power(x, y)))
            ELSE IF x = 0 THEN Raise("ZeroDivisionError")
            ELSE Return(PyFloat(1, Power(x, 0 - y)))
      [] f = "_lshift_" ->
            IF y < 0 THEN Raise("ValueError") ELSE Return(PyInt(x * Power(2, y)))
      [] f = "_rshift_" ->
            IF y < 0 THEN Raise("ValueError") ELSE Return(PyInt(NativeFloor(x, Power(2, y))))
      [] f = "_bitand_" -> Return(PyInt(Bitwise(BothBits, x, y)))
      [] f = "_bitor_" -> Return(PyInt(Bitwise(EitherBit, x, y)))
      [] f = "_bitxor_" -> Return(PyInt(Bitwise(OneBit, x, y)))
      [] f = "_eq_" -> Return(PyBool(x = y))
      [] f = "_ne_" -> Return(PyBool(x # y))
      [] f = "_lt_" -> Return(PyBool(x < y))
      [] f = "_le_" -> Return(PyBool(x <= y))
      [] f = "_gt_" -> Return(PyBool(x > y))
      [] f = "_ge_" -> Return(PyBool(x >= y))
      [] f = "_neg_" -> Return(PyInt(0 - x))
      [] f = "_pos_" -> Return(PyInt(x))
      [] f = "_invert_" -> Return(PyInt(0 - x - 1))

(* The catalog function whose symbol was applied to make the node id, and  *)
(* whether the application was of the function's arity to the operands.    *)
AppliedFunction(id) == declared[id].payload.name
IsCatalogApplication(id) ==
    /\ declared[id].applied
    /\ declared[id].payload.kind = "function"
    /\ AppliedFunction(id) \in ArithmeticFunctions
    /\ declared[id].args =
         (IF AppliedFunction(id) \in UnaryFunctions THEN <<PyRef(X)>>
          ELSE <<PyRef(X), PyRef(Y)>>)

(* C11: an arithmetic, bitwise or comparison entry of the catalog applied  *)
(* to the integer leaves X and Y (a unary one to X) evaluates to the       *)
(* outcome of the host's operation on the two integers, the failure of a   *)
(* division or modulo by zero included.                                    *)
C11_CatalogMatchesNative ==
    (last.op = "evaluate" /\ last.self > Y /\ IsCatalogApplication(last.self))
        => result = Native(AppliedFunction(last.self),
                           declared[X].payload.n, declared[Y].payload.n)

(* floordiv_(symbol(-1), symbol(2)).evaluate() gave -1. *)
C11_Witness ==
    /\ last.op = "evaluate" /\ last.self > Y /\ IsCatalogApplication(last.self)
    /\ AppliedFunction(last.self) = "_floordiv_"
    /\ declared[X].payload.n = 0 - 1 /\ declared[Y].payload.n = 2
    /\ result = Return(PyInt(0 - 1))

----------------------------------------------------------------------------
(* The host's boolean expressions on the evaluations of two nodes: the     *)
(* right operand is evaluated only if the left one does not decide.        *)

NativeBoolean(f, h, x, y) ==
    LET ex == evaluate(h, x)
        ey == evaluate(h, y)
        decided == IF f = "_and_" THEN ~Truthy(ex.out.val) ELSE Truthy(ex.out.val)
    IN  IF ex.out.raised \/ decided THEN ex
        ELSE [out |-> ey.out, trace |-> ex.trace \o ey.trace]

(* The nodes whose payload a sequence of events invokes. *)
Invocations(t) == {t[k].node : k \in {j \in 1..Len(t) : t[j].ev = "invoke"}}

IsBooleanApplication(id) ==
    /\ declared[id].applied
    /\ declared[id].payload \in {PyFn("_and_"), PyFn("_or_")}
    /\ Len(declared[id].args) = 2

(* C12: and_(X, Y).evaluate() and or_(X, Y).evaluate() have the outcome of *)
(* the host's `X.evaluate() and Y.evaluate()` and `X.evaluate() or         *)
(* Y.evaluate()`: the same value or failure, and below the node the same   *)
(* payloads invoked.                                                       *)
C12_BooleanMatchesNative ==
    (last.op = "evaluate" /\ last.self > Q /\ IsBooleanApplication(last.self))
        => LET d == declared[last.self]
               native == NativeBoolean(d.payload.name, heap, d.args[1].n, d.args[2].n)
           IN  /\ result = native.out
               /\ Invocations(trace) \ {last.self} = Invocations(native.trace)

----------------------------------------------------------------------------
(* The entry of the catalog that stands for each operator of the host.     *)
EntryOfOperator ==
    [__add__ |-> "_add_", __sub__ |-> "_sub_", __mul__ |-> "_mul_",
     __matmul__ |-> "_matmul_", __truediv__ |-> "_div_",
     __floordiv__ |-> "_floordiv_", __mod__ |-> "_mod_", __pow__ |-> "_pow_",
     __lshift__ |-> "_lshift_", __rshift__ |-> "_rshift_",
     __and__ |-> "_bitand_", __xor__ |-> "_bitxor_", __or__ |-> "_bitor_",
     __neg__ |-> "_neg_", __pos__ |-> "_pos_", __invert__ |-> "_invert_",
     __eq__ |-> "_eq_", __ne__ |-> "_ne_", __lt__ |-> "_lt_", __le__ |-> "_le_",
     __gt__ |-> "_gt_", __ge__ |-> "_ge_"]

(* The operands of the operator call last: a alone for -a, +a, ~a. *)
OperatorOperands == <<PyRef(last.self)>> \o last.args

(* C13: an operator written on nodes a and b returns a new node, without   *)
(* evaluating or comparing a and b: its payload is the function of the     *)
(* operator's catalog entry, its children are a then b (a alone for a      *)
(* unary operator), a and b are as they were, and it evaluates to the      *)
(* outcome the entry applied to a and b evaluates to.                      *)
C13_OperatorsBuildNodes ==
    (last.op \in DOMAIN EntryOfOperator)
        => LET new == Len(heap)
               entry == CHOOSE c \in 1..Len(FullCatalog) :
                            declared[c].payload = PyFn(EntryOfOperator[last.op])
               applied == symbol_call(heap, entry, OperatorOperands, <<>>, <<>>)
           IN  /\ new = Y + 1
               /\ result = Return(PyRef(new))
               /\ trace = <<>>
               /\ heap[new].instance = PyFn(EntryOfOperator[last.op])
               /\ heap[new].parameters.kind = "tuple"
               /\ heap[new].parameters.vals = OperatorOperands
               /\ Len(OperatorOperands) =
                    (IF last.op \in {"__neg__", "__pos__", "__invert__"} THEN 1 ELSE 2)
               /\ \A id \in {X, Y} : heap[id] = symbol_init(declared[id].payload)
               /\ evaluate(heap, new).out = evaluate(applied.heap, new + 1).out
               /\ EntryOfOperator[last.op] \in ArithmeticFunctions
                    => evaluate(heap, new).out =
                         Native(EntryOfOperator[last.op],
                                declared[X].payload.n, declared[Y].payload.n)

(* symbol(2) == symbol(1) returned a node of _eq_ over the two leaves. *)
C13_Witness ==
    /\ last.op = "__eq__"
    /\ declared[X].payload = PyInt(2) /\ declared[Y].payload = PyInt(1)
    /\ result = Return(PyRef(Y + 1))
    /\ heap[Y + 1].instance = PyFn("_eq_")
    /\ heap[Y + 1].parameters.vals = <<PyRef(X), PyRef(Y)>>

----------------------------------------------------------------------------
(* C14: x in e, e an application node, is true if and only if x is one of  *)
(* the children of e.                                                      *)
C14_MembershipIsChildhood ==
    (last.op = "__contains__" /\ declared[last.self].applied)
        => result = Return(PyBool(\E k \in 1..Len(DeclaredChildren(last.self)) :
                                     DeclaredChildren(last.self)[k] = last.args[1]))

----------------------------------------------------------------------------
(* C15: under every interleaving of the steps of concurrent evaluations,   *)
(* each evaluation ends with the outcome it has when run alone, and no     *)
(* step changes the payload or the children of any node.                   *)
C15_AloneInvariant ==
    /\ \A e \in 1..Len(threads) :
          threads[e].done => threads[e].out = evaluate(heap, threads[e].root).out
    /\ \A id \in 1..Len(heap) :
          /\ heap[id].instance = declared[id].payload
          /\ heap[id].parameters =
               (IF declared[id].applied THEN ParamsTuple(declared[id].args) ELSE ParamsNone)
C15_ConcurrentEvaluation == [](C15_AloneInvariant) /\ [][heap' = heap]_vars

(* Two evaluations of the same expression ran interleaved, and both ended  *)
(* with its value.                                                         *)
C15_Witness ==
    /\ Len(threads) = 2
    /\ threads[1].root = E2 /\ threads[2].root = E2
    /\ threads[1].done /\ threads[2].done
    /\ ~threads[1].out.raised
    /\ threads[1].out = threads[2].out
    /\ declared[E2].args = <<PyRef(E1), PyRef(E1)>>

----------------------------------------------------------------------------
(* The trace read as a depth-first, post-order walk of the declared        *)
(* structure.  TraceEnd(id, k) is the position where the evaluation of     *)
(* node id that starts at position k ends: the node is entered at k, its   *)
(* declared children are evaluated one after the other, each from the      *)
(* position after the end of the one before, and the payload of the node   *)
(* is invoked after the last.  It is Cut if the trace stops before that    *)
(* end, and OutOfOrder if an event is not the one the walk comes to.       *)
Cut == 0 - 1
OutOfOrder == 0 - 2

RECURSIVE TraceEnd(_, _)
RECURSIVE ChildrenEnd(_, _, _)
ChildrenEnd(id, i, k) ==
    LET children == DeclaredChildren(id)
    IN  IF i > Len(children)
        THEN IF k > Len(trace) THEN Cut
             ELSE IF trace[k] = Invoked(id) THEN k ELSE OutOfOrder
        ELSE IF children[i].kind # "symbol"
             THEN IF k > Len(trace) THEN Cut ELSE OutOfOrder
        ELSE LET end == TraceEnd(children[i].n, k)
             IN  IF end < 0 THEN end ELSE ChildrenEnd(id, i + 1, end + 1)
TraceEnd(id, k) ==
    IF k > Len(trace) THEN Cut
    ELSE IF trace[k] # Entered(id) THEN OutOfOrder
    ELSE IF IsLeaf(id) THEN k
    ELSE ChildrenEnd(id, 1, k + 1)

(* C16: evaluate walks depth first and in post-order: the evaluation of a  *)
(* child, with all that is invoked below it, ends before the evaluation of *)
(* the next declared child starts, and the payload of a node is invoked    *)
(* after all its children, whether the children were given by position or  *)
(* by name.  An evaluation that fails stops the walk where it is.          *)
C16_DepthFirstPostOrder ==
    (last.op = "evaluate")
        => LET end == TraceEnd(last.self, 1)
           IN  /\ end = Len(trace) \/ (result.raised /\ end = Cut)
               /\ trace # <<>>

(* An expression with children given by name, the first of them an         *)
(* expression, was evaluated to its end.                                   *)
C16_Witness ==
    /\ last.op = "evaluate"
    /\ ~result.raised
    /\ IsNamed(last.self)
    /\ Len(DeclaredChildren(last.self)) = 2
    /\ declared[last.self].keys = <<"y", "x">>
    /\ declared[DeclaredChildren(last.self)[1].n].applied
    /\ ~declared[DeclaredChildren(last.self)[2].n].applied
    /\ Len(trace) >= 6

----------------------------------------------------------------------------
(* The parameters a node has when its children are those of a call with    *)
(* the arguments args, or the names keys and the values vals.              *)
ParametersOf(args, keys, vals) ==
    IF keys = <<>> THEN ParamsTuple(args) ELSE ParamsDict(keys, vals)

(* C17: applying a node that has children gives a new node with the        *)
(* payload of the applied node and, for children, exactly the arguments of *)
(* this call: the children of the applied node are not kept in it, and the *)
(* applied node keeps its own; with positional arguments that evaluate,    *)
(* the new node evaluates to the payload called on their values.           *)
C17_ReapplicationReplacesChildren ==
    (last.op = "__call__" /\ declared[last.self].applied /\ ~result.raised)
        => LET new == Len(heap)
               old == declared[last.self]
           IN  /\ result = Return(PyRef(new))
               /\ new # last.self
               /\ heap[new].instance = old.payload
               /\ heap[new].parameters = ParametersOf(last.args, last.keys, last.vals)
               /\ heap[last.self].instance = old.payload
               /\ heap[last.self].parameters = ParametersOf(old.args, old.keys, old.vals)
               /\ (last.keys = <<>>
                     /\ \A i \in DOMAIN last.args : ~Outcome(last.args[i].n).raised)
                    => Outcome(new) =
                         PyCall(old.payload,
                                [i \in DOMAIN last.args |-> Outcome(last.args[i].n).val])

(* e1 = sub_(a) was applied again, to two arguments: e2 = e1(a, a), which *)
(* evaluates to a - a while e1 has its one child still.                    *)
C17_Witness ==
    /\ last.op = "__call__" /\ declared[last.self].applied /\ ~result.raised
    /\ declared[last.self].payload = PyFn("_sub_")
    /\ Len(declared[last.self].args) = 1
    /\ Len(last.args) = 2
    /\ Len(heap[last.self].parameters.vals) = 1
    /\ ~Outcome(Len(heap)).raised

----------------------------------------------------------------------------
(* C18: on every node, leaf or application, iteration succeeds and yields  *)
(* as many items as the length of the node, the i-th of them the item at   *)
(* index i; iterating a leaf yields nothing.                               *)
C18_TraversalsAgree ==
    (last.op = "__iter__")
        => LET length == symbol_len(heap, last.self)
           IN  /\ ~result.raised
               /\ ~length.raised
               /\ Len(result.items) = length.val.n
               /\ \A i \in 0 .. (length.val.n - 1) :
                     symbol_getitem(heap, last.self, IntKey(i)) = Return(result.items[i + 1])

----------------------------------------------------------------------------
(* The child relation of the heap. *)
ChildIds(id) ==
    LET ps == parameter_values(heap[id].parameters)
    IN  {ps[i].n : i \in {j \in DOMAIN ps : ps[j].kind = "symbol"}}

(* The nodes reached from the nodes S in at most n more steps down. *)
RECURSIVE Descendants(_, _)
Descendants(S, n) ==
    IF n = 0 THEN S
    ELSE Descendants(S \cup UNION {ChildIds(id) : id \in S}, n - 1)

(* The number of paths from root down to any node (root itself reached by  *)
(* the empty path): finite when no node is below itself.                   *)
RECURSIVE Paths(_)
RECURSIVE PathsBelow(_)
PathsBelow(children) ==
    IF children = <<>> THEN 0
    ELSE (IF Head(children).kind = "symbol" THEN Paths(Head(children).n) ELSE 0)
         + PathsBelow(Tail(children))
Paths(root) == 1 + PathsBelow(parameter_values(heap[root].parameters))

InvocationCount == Cardinality({k \in 1..Len(trace) : trace[k].ev = "invoke"})

C19_Acyclic ==
    /\ \A id \in Nodes : \A c \in ChildIds(id) : c < id
    /\ \A id \in Nodes : id \notin Descendants(ChildIds(id), Len(heap))
    /\ (last.op = "evaluate")
          => /\ InvocationCount <= Paths(last.self)
             /\ Len(trace) <= 2 * Paths(last.self)

(* C19: whatever constructions, applications and operators made the nodes, *)
(* every child of a node was created before the node and no node is below  *)
(* itself; no step gives a node other children; and an evaluation ends     *)
(* after at most as many payload invocations as there are paths from its   *)
(* root down the structure.                                                *)
C19_AcyclicAndBounded ==
    /\ [](C19_Acyclic)
    /\ [][\A id \in 1..Len(heap) :
             /\ Len(heap') >= Len(heap)
             /\ heap'[id].parameters = heap[id].parameters]_vars

(* An expression with a shared child, reached by five paths in all, was    *)
(* evaluated with three payload invocations.                               *)
C19_Witness ==
    /\ last.op = "evaluate"
    /\ ~result.raised
    /\ Paths(last.self) = 5
    /\ InvocationCount = 3
    /\ Cardinality(Descendants({last.self}, Len(heap))) = 3

====
